---- MODULE Spec2Model ----
(***************************************************************************)
(* Model of the BLE peripheral firmware of ble-react-native (the ESP32     *)
(* server of the guide, src/unnamed/part_003): the connection flag, the    *)
(* sampling flag, the advertising state of the stack, the characteristic   *)
(* value, and the handlers onConnect, onDisconnect, the descriptor write   *)
(* callback, onRead and loop.  A step of the model is one statement of a    *)
(* handler that touches state the two tasks share.  The second part is the *)
(* device scan of the application (src/unnamed/part_001): the scan         *)
(* callback of scanBleDevices and the addScannedDevice reducer.  The third *)
(* part is the connection of the application to a peripheral: the thunks   *)
(* connectDeviceById and disconnectDevice, BLEManager, BLEScreen and       *)
(* WeightScreen.                                                           *)
(***************************************************************************)
EXTENDS Integers, Sequences, FiniteSets, Bags, TLC

\* Largest value the load cell returns in the model; samples are 0..MaxSample.
MaxSample == 1

\* The values scale.get_units can return.
Samples == 0 .. MaxSample

\* Value of the characteristic after setValue("PENDING"), before any sample.
PENDING == -1

\* 16-bit values a client writes to the 0x2902 descriptor.
DescriptorValues == {0, 1, 2, 3, 256, 257, 65534, 65535}

\* Most connections the stack holds beyond the first one.
MaxExtraLinks == 1

\* Number of peripherals in range of the scan; their ids are 1..MaxDevices.
MaxDevices == 2

\* The ids of the scanned devices.
DeviceIds == 1 .. MaxDevices

\* The name the scan looks for.  A name is a sequence of letters; "BLE_",
\* "SERVER" and "x" stand for the letters.
BLE_SERVER == <<"BLE_", "SERVER">>

\* The names scanned devices carry (the empty name included).
ScannedNames ==
    { <<>>, <<"BLE_", "SERVER">>, <<"x", "BLE_", "SERVER", "x">>,
      <<"BLE_">>, <<"SERVER", "BLE_">>, <<"BLE_", "x", "SERVER">> }

\* The rssi a scanned device reports: none, zero, or a level in dBm.
RssiValues == { <<>>, <<0>>, <<-40>>, <<-60>> }

\* The rssi that stands in for a missing or zero rssi.
DefaultRssi == -100

\* The devices the library can hand to the scan callback; a field that is
\* null is <<>>, a field with the value v is <<v>>.
ScannedDevices ==
    [id : DeviceIds,
     name : {<<>>} \cup {<<n>> : n \in ScannedNames},
     rssi : RssiValues]

\* Most calls of connectDeviceById and disconnectDevice, taken together,
\* that are in flight at a time.
MaxInFlight == 2

\* enum NetworkState of the store contracts.
NetworkState ==
    [PENDING |-> "PENDING", LOADING |-> "LOADING", SUCCESS |-> "SUCCESS",
     ERROR |-> "ERROR", CANCELED |-> "CANCELED"]

\* The message of new Error(error.toString): the function is not called, so
\* the message is the text of Error.prototype.toString.
ErrorToString == "function toString() { [native code] }"

\* The messages disconnectDevice throws.
NoDeviceConnected == "No device connected"
DeviceIsUndefined == "Device is undefined."

\* The message of the library's error when cancelConnection is called on a
\* device that is not connected.
DeviceNotConnected == "Device is not connected"

\* action.error.message of a rejected action: undefined (<<>>) or a text.
ErrorMessages ==
    { <<>>, <<"CANCELED">>, <<"canceled">>, <<NoDeviceConnected>>,
      <<DeviceIsUndefined>>, <<ErrorToString>> }

\* The adapter states of IAdapterState the model uses.
AdapterStates == {"Unknown", "PoweredOff", "PoweredOn"}

\* String.prototype.toLowerCase on an adapter state.
ToLowerCase(s) ==
    CASE s = "Unknown" -> "unknown"
      [] s = "PoweredOff" -> "poweredoff"
      [] s = "PoweredOn" -> "poweredon"

\* Largest weight a notification carries, in thirds of a gram; a
\* notification carries a weight of -1 .. MaxReading thirds of a gram.
MaxReading == 3

\* The weights of the notifications, in thirds of a gram: the reading r
\* stands for the float32 nearest to r / 3000 kg, and res * 1000 for it is
\* within a millionth of r / 3 g, which is never half way between two
\* whole numbers of grams.
Readings == -1 .. MaxReading

\* Most calls of checkDevices that await connectToDevice at one time.
MaxChecks == 2

\* The Device the library returns for the peripheral with this id.
DeviceOf(id) == [id |-> id, name |-> <<BLE_SERVER>>, rssi |-> <<>>]

\* Most peripherals in range while BLEScreen scans.
MaxInRange == 1

\* The peripherals in range while BLEScreen scans: what its scan reports.
InRange == {DeviceOf(id) : id \in 1 .. MaxInRange}

\* The subscription of bleManager.onStateChange and a subscription of
\* device.onDisconnected for the device with this id.  The library can hold
\* more than one subscription of a device: subscriptions are kept in bags.
StateSubscription == [kind |-> "state", id |-> 0]
DisconnectedSubscription(id) == [kind |-> "device", id |-> id]

VARIABLES
    pc,                          \* where setup() is: "boot" .. "run" (returned)
    client_is_connected,         \* global flag, part_003:120
    load_cell_sampling_enabled,  \* global flag, part_003:132
    advertising,                 \* the stack is advertising
    link,                        \* the stack holds a connection to a client
    extra,                       \* connections the stack holds beyond the first
    charValue,                   \* value held by loadCellCharacteristic
    eventSeen,                   \* history: some stack event was delivered
    subscribedSinceConnect,      \* history: notify bit written in this session
    last,                        \* history: what the latest step did
    loopPc,                      \* the statement the loop task is to run next
    fwWeight,                    \* the local weight of notifyWeight, part_003:315
    pass,                        \* history: the pass of loop() under way
    btPc,                        \* the statement the Bluetooth task is to run next
    btWeight,                    \* the local weight of onRead, part_003:228
    cb,                          \* history: the callback under way
    scanning,                    \* bleManager runs a device scan
    devices,                     \* state.deviceScan.devices of the store
    lastScan,                    \* history: what the latest scan step did
    ble,                         \* the slice: status, error, connectedDevice
    lastAct,                     \* history: what the latest application step did
    sliceDevice,                 \* module-level device of the slice, part_001:7
    connected,                   \* ids of the peripherals the library is linked to
    connectCalls,                \* connectDeviceById calls in flight
    disconnectCalls,             \* disconnectDevice calls in flight
    adapterState,                \* state.adapterState of the store
    mgrMounted,                  \* BLEManager is mounted
    mgrDevice,                   \* module-level device of BLEManager.tsx:18
    mgrChecks,                   \* bag of ids checkDevices awaits connectToDevice for
    registered,                  \* bag of subscriptions of BLEManager the library holds
    subscriptions,               \* the subscriptions state of BLEManager, a bag
    events,                      \* disconnections not yet delivered to listeners
    mgrEffectDue,                \* the [connectedDevice] effect of BLEManager is due
    screenEffectDue,             \* the effect of BLEScreen is due
    weightEffectDue,             \* the effect of WeightScreen is due
    widgetEffectDue,             \* the effect of WeightWidget is due
    renderedWeight,              \* the renderedWeight state of WeightWidget
    isScanning,                  \* the isScanning state of BLEScreen
    weightMounted,               \* WeightScreen is mounted
    monitors,                    \* monitor subscriptions the library holds
    effectSub,                   \* weightMonitorSubscription of the latest effect
    weight                       \* the weight state of WeightScreen, thirds of a gram

\* The state of the firmware and the state of the application.
fwVars == <<pc, client_is_connected, load_cell_sampling_enabled, advertising,
            link, extra, charValue, eventSeen, subscribedSinceConnect, last,
            loopPc, fwWeight, pass, btPc, btWeight, cb>>
scanVars == <<scanning, devices, lastScan>>
thunkVars == <<sliceDevice, connected, connectCalls, disconnectCalls>>
mgrVars == <<mgrMounted, mgrDevice, mgrChecks, registered, subscriptions,
             events>>
effectVars == <<mgrEffectDue, screenEffectDue, weightEffectDue,
                widgetEffectDue, renderedWeight>>
weightVars == <<weightMounted, monitors, effectSub, weight>>
restVars == <<ble, lastAct, thunkVars, adapterState, mgrVars, effectVars,
              isScanning, weightVars>>
appVars == <<scanVars, restVars>>
vars == <<fwVars, appVars>>

\* The record of one step: the operation, the one before it, the state it
\* started from, the descriptor value written, and the sensor reads, values
\* stored in the characteristic, notify attempts, deliveries and read
\* responses it made (each a sequence of values, in order); result is what
\* notify() handed back to the firmware.  It is a history variable: no
\* handler reads it.  The operation is "pass" for a statement of loop() that
\* does not end the pass and "tick" for the one that ends it; "reading" and
\* "disconnecting" for the first statement of onRead and of onDisconnect,
\* "read" and "disconnect" for their last; during is filled for a tick.
Step(op, written, reads, notified, delivered, response) ==
    [op |-> op, prev |-> last.op,
     preConn |-> client_is_connected, preEn |-> load_cell_sampling_enabled,
     preAdv |-> advertising, preChar |-> charValue, written |-> written,
     reads |-> reads, stored |-> <<>>, notified |-> notified,
     delivered |-> delivered, result |-> <<>>, response |-> response,
     prevNotified |-> last.notified, prevDelivered |-> last.delivered,
     during |-> {}]

\* What is kept of a pass of loop() while it is under way: the step before
\* it began and the state it began from, the value it has stored in the
\* characteristic, and the stack callbacks that ran on the Bluetooth task
\* since it began.
PassBegin ==
    [prev |-> last.op,
     preConn |-> client_is_connected, preEn |-> load_cell_sampling_enabled,
     preAdv |-> advertising, preChar |-> charValue, stored |-> <<>>,
     prevNotified |-> last.notified, prevDelivered |-> last.delivered,
     during |-> {}]

\* No pass is under way: the loop task is between two calls of loop().
NoPass ==
    [prev |-> "init", preConn |-> FALSE, preEn |-> FALSE, preAdv |-> FALSE,
     preChar |-> PENDING, stored |-> <<>>,
     prevNotified |-> <<>>, prevDelivered |-> <<>>,
     during |-> {}]

\* The pass record once the stack task has run a statement of the callback
\* op: the loop task and the Bluetooth task share no lock, so a statement of
\* a callback can run between any two statements of a pass.
Inside(op) ==
    IF loopPc = "loop" THEN pass ELSE [pass EXCEPT !.during = @ \cup {op}]

\* The record of a whole pass p of loop(), written by the statement that
\* ends it.  notify() returns void (part_003:317): the firmware gets no
\* result from it.
TickRecord(p, reads, notified, delivered) ==
    [op |-> "tick", prev |-> p.prev,
     preConn |-> p.preConn, preEn |-> p.preEn,
     preAdv |-> p.preAdv, preChar |-> p.preChar, written |-> <<>>,
     reads |-> reads, stored |-> p.stored, notified |-> notified,
     delivered |-> delivered, result |-> <<>>, response |-> <<>>,
     prevNotified |-> p.prevNotified, prevDelivered |-> p.prevDelivered,
     during |-> p.during]

\* What is kept of a callback of more than one statement while the Bluetooth
\* task runs it: the step before it began and the state it began from.
CallbackBegin ==
    [prev |-> last.op,
     preConn |-> client_is_connected, preEn |-> load_cell_sampling_enabled,
     preAdv |-> advertising, preChar |-> charValue]

\* The Bluetooth task runs no callback of more than one statement.
NoCallback ==
    [prev |-> "init", preConn |-> FALSE, preEn |-> FALSE, preAdv |-> FALSE,
     preChar |-> PENDING]

\* The record of a whole callback c, written by its last statement, and of
\* the answer of the stack to a read request.
CallbackRecord(op, c, reads, notified, response) ==
    [op |-> op, prev |-> c.prev,
     preConn |-> c.preConn, preEn |-> c.preEn,
     preAdv |-> c.preAdv, preChar |-> c.preChar, written |-> <<>>,
     reads |-> reads, stored |-> <<>>, notified |-> notified,
     delivered |-> <<>>, result |-> <<>>, response |-> response,
     prevNotified |-> <<>>, prevDelivered |-> <<>>,
     during |-> {}]

\* Globals as initialised at part_003:116-133; nothing is set up yet.
FwInit ==
    /\ pc = "boot"
    /\ client_is_connected = FALSE
    /\ load_cell_sampling_enabled = FALSE
    /\ advertising = FALSE
    /\ link = FALSE
    /\ extra = 0
    /\ charValue = PENDING
    /\ eventSeen = FALSE
    /\ subscribedSinceConnect = FALSE
    /\ last = [op |-> "init", prev |-> "init",
               preConn |-> FALSE, preEn |-> FALSE, preAdv |-> FALSE,
               preChar |-> PENDING, written |-> <<>>,
               reads |-> <<>>, stored |-> <<>>, notified |-> <<>>,
               delivered |-> <<>>, result |-> <<>>, response |-> <<>>,
               prevNotified |-> <<>>, prevDelivered |-> <<>>,
               during |-> {}]
    /\ loopPc = "loop"
    /\ fwWeight = <<>>
    /\ pass = NoPass
    /\ btPc = "idle"
    /\ btWeight = <<>>
    /\ cb = NoCallback

----------------------------------------------------------------------------
\* setupSampleService: the characteristic starts with the value "PENDING".
setupSampleService == charValue' = PENDING

\* setupAdvertisementData that registers the data and never starts.
setupAdvertisementData_noStart == advertising' = advertising

\* setupAdvertisementData: pAdvertising->start(), part_003:246.  At boot
\* nothing else uses the radio and the start is taken to succeed.
setupAdvertisementData == advertising' = TRUE

\* setup() that starts advertising before it has set up the service.
setup_advertisesFirst ==
    /\ pc = "boot"
    /\ pc' = "setupAdvertisementData"
    /\ setupAdvertisementData
    /\ last' = Step("setup", <<>>, <<>>, <<>>, <<>>, <<>>)
    /\ UNCHANGED <<client_is_connected, load_cell_sampling_enabled, link,
                   extra, charValue, eventSeen, subscribedSinceConnect,
                   loopPc, fwWeight, pass, btPc, btWeight, cb>>
    /\ UNCHANGED appVars

\* setup(), part_003:271-280: serial port, load cells, server and service
\* with its callbacks.  The stack is not advertising yet, no central can
\* connect and no callback can run: the statements are one step.
setup ==
    /\ pc = "boot"
    /\ pc' = "setupAdvertisementData"
    /\ setupSampleService
    /\ last' = Step("setup", <<>>, <<>>, <<>>, <<>>, <<>>)
    /\ UNCHANGED <<client_is_connected, load_cell_sampling_enabled,
                   advertising, link, extra, eventSeen,
                   subscribedSinceConnect, loopPc, fwWeight, pass, btPc,
                   btWeight, cb>>
    /\ UNCHANGED appVars

\* setup(), part_003:281: the call of setupAdvertisementData.  From here on
\* the Bluetooth task can run a callback, also before setup() has returned.
setup_setupAdvertisementData ==
    /\ pc = "setupAdvertisementData"
    /\ pc' = "println"
    /\ setupAdvertisementData
    /\ last' = Step("setup", <<>>, <<>>, <<>>, <<>>, <<>>)
    /\ UNCHANGED <<client_is_connected, load_cell_sampling_enabled, link,
                   extra, charValue, eventSeen, subscribedSinceConnect,
                   loopPc, fwWeight, pass, btPc, btWeight, cb>>
    /\ UNCHANGED appVars

\* setup(), part_003:283-284: the last print and the return; the Arduino
\* core goes on to call loop().
setup_println ==
    /\ pc = "println"
    /\ pc' = "run"
    /\ last' = Step("setup", <<>>, <<>>, <<>>, <<>>, <<>>)
    /\ UNCHANGED <<client_is_connected, load_cell_sampling_enabled,
                   advertising, link, extra, charValue, eventSeen,
                   subscribedSinceConnect, loopPc, fwWeight, pass, btPc,
                   btWeight, cb>>
    /\ UNCHANGED appVars

----------------------------------------------------------------------------
\* onConnect that also closes the sampling flag for the new session.
onConnect_resetsGate ==
    /\ client_is_connected' = TRUE
    /\ load_cell_sampling_enabled' = FALSE

\* BaseBLEServerCallbacks::onConnect: sets the connection flag.
onConnect ==
    /\ client_is_connected' = TRUE
    /\ UNCHANGED load_cell_sampling_enabled

\* The stack takes one more connection.
StackAccept ==
    IF link THEN extra' = extra + 1 /\ link' = link
            ELSE link' = TRUE /\ extra' = extra

\* The stack loses one connection.
StackDrop ==
    IF extra > 0 THEN extra' = extra - 1 /\ link' = link
                 ELSE link' = FALSE /\ extra' = extra

\* A central connects: the stack accepts a connection only while it is
\* advertising, stops advertising, and calls onConnect.  The Bluetooth task
\* runs one callback at a time.
Connect ==
    /\ btPc = "idle"
    /\ advertising
    /\ link => extra < MaxExtraLinks
    /\ StackAccept
    /\ advertising' = FALSE
    /\ onConnect
    /\ eventSeen' = TRUE
    /\ subscribedSinceConnect' = FALSE
    /\ last' = Step("connect", <<>>, <<>>, <<>>, <<>>, <<>>)
    /\ pass' = Inside("connect")
    /\ UNCHANGED <<loopPc, fwWeight, btPc, btWeight, cb>>
    /\ UNCHANGED <<pc, charValue>>
    /\ UNCHANGED appVars

\* The stack delivers a connect event while the connection flag is already
\* set: a second central got through although advertising is off.
UnexpectedConnect ==
    /\ btPc = "idle"
    /\ link
    /\ client_is_connected
    /\ extra < MaxExtraLinks
    /\ StackAccept
    /\ onConnect
    /\ eventSeen' = TRUE
    /\ last' = Step("connect", <<>>, <<>>, <<>>, <<>>, <<>>)
    /\ pass' = Inside("connect")
    /\ UNCHANGED <<loopPc, fwWeight, btPc, btWeight, cb>>
    /\ UNCHANGED <<pc, advertising, charValue, subscribedSinceConnect>>
    /\ UNCHANGED appVars

\* BaseBLEServerCallbacks::onDisconnect, part_003:177: the connection flag
\* is cleared; the callback touches load_cell_sampling_enabled nowhere.
onDisconnect ==
    /\ client_is_connected' = FALSE
    /\ UNCHANGED load_cell_sampling_enabled

\* BaseBLEServerCallbacks::onDisconnect, part_003:180:
\* pServer->getAdvertising()->start().  ok says whether the stack starts to
\* advertise; the call is made once and its outcome is not looked at.
onDisconnect_start(ok) ==
    advertising' = IF ok THEN TRUE ELSE advertising

\* The firmware has no fault indicator: no code raises one.
faultIndicator == FALSE

\* A link goes down: the stack calls onDisconnect, which clears the flag.
\* The restart of advertising is a later statement of the callback, and a
\* statement of loop() can run between the two.
Disconnect ==
    /\ btPc = "idle"
    /\ link
    /\ StackDrop
    /\ onDisconnect
    /\ btPc' = "start"
    /\ cb' = CallbackBegin
    /\ eventSeen' = TRUE
    /\ last' = Step("disconnecting", <<>>, <<>>, <<>>, <<>>, <<>>)
    /\ pass' = Inside("disconnect")
    /\ UNCHANGED <<loopPc, fwWeight, btWeight>>
    /\ UNCHANGED <<pc, advertising, charValue, subscribedSinceConnect>>
    /\ UNCHANGED appVars

\* The last statement of onDisconnect: the restart of advertising, which
\* succeeds or not.
Disconnect_start ==
    /\ btPc = "start"
    /\ \E ok \in BOOLEAN : onDisconnect_start(ok)
    /\ btPc' = "idle"
    /\ cb' = NoCallback
    /\ last' = CallbackRecord("disconnect", cb, <<>>, <<>>, <<>>)
    /\ pass' = Inside("disconnect")
    /\ UNCHANGED <<loopPc, fwWeight, btWeight>>
    /\ UNCHANGED <<pc, client_is_connected, load_cell_sampling_enabled, link,
                   extra, charValue, eventSeen, subscribedSinceConnect>>
    /\ UNCHANGED appVars

----------------------------------------------------------------------------
\* Bit 0 of a client characteristic configuration value: notifications on.
NotifyBit(v) == v % 2 = 1

\* A descriptor callback that enables sampling on any non-zero value.
onDescriptorWrite_nonZero(v) ==
    /\ load_cell_sampling_enabled' = (v # 0)
    /\ UNCHANGED client_is_connected

\* LoadCellDescriptorCallback: the sampling flag follows the notify bit of
\* the written value.
onDescriptorWrite(v) ==
    /\ load_cell_sampling_enabled' = NotifyBit(v)
    /\ UNCHANGED client_is_connected

\* The connected client writes the 0x2902 descriptor.
DescriptorWrite ==
    /\ btPc = "idle"
    /\ link
    /\ \E v \in DescriptorValues :
        /\ onDescriptorWrite(v)
        /\ subscribedSinceConnect' = (subscribedSinceConnect \/ NotifyBit(v))
        /\ last' = Step("write", <<v>>, <<>>, <<>>, <<>>, <<>>)
    /\ eventSeen' = TRUE
    /\ pass' = Inside("write")
    /\ UNCHANGED <<loopPc, fwWeight, btPc, btWeight, cb>>
    /\ UNCHANGED <<pc, advertising, link, extra, charValue>>
    /\ UNCHANGED appVars

----------------------------------------------------------------------------
\* float weight = scale.get_units(), part_003:228: the sensor returns w.
onRead_get_units(w) ==
    /\ btPc = "idle"
    /\ btWeight' = <<w>>
    /\ btPc' = "setValue"
    /\ cb' = CallbackBegin
    /\ last' = Step("reading", <<>>, <<w>>, <<>>, <<>>, <<>>)
    /\ UNCHANGED charValue

\* pCharacteristic->setValue(weight), part_003:229; notified is what the
\* callback has notified, which is nothing.
onRead_setValue(notified) ==
    /\ btPc = "setValue"
    /\ charValue' = btWeight[1]
    /\ btPc' = "respond"
    /\ last' = CallbackRecord("read", cb, btWeight, notified, <<>>)
    /\ UNCHANGED <<btWeight, cb>>

\* onRead that also notifies the value it has set.
onRead_notifies(w) ==
    onRead_get_units(w) \/ onRead_setValue(btWeight)

\* SampleLoadCellCallback::onRead: one scale.get_units(), returning w, and
\* setValue(weight), one step each: the callback runs on the Bluetooth task
\* and a statement of loop() can run between the two.
onRead(w) ==
    onRead_get_units(w) \/ onRead_setValue(<<>>)

\* The connected client reads the characteristic: the stack calls onRead.
ReadRequest ==
    /\ link
    /\ \E w \in Samples : onRead(w)
    /\ eventSeen' = TRUE
    /\ pass' = Inside("read")
    /\ UNCHANGED <<loopPc, fwWeight>>
    /\ UNCHANGED <<pc, client_is_connected, load_cell_sampling_enabled,
                   advertising, link, extra, subscribedSinceConnect>>
    /\ UNCHANGED appVars

\* onRead has returned: the stack answers the read request with the value
\* the characteristic holds now, which is the value onRead has set unless
\* the loop task has stored another since.
ReadResponse ==
    /\ btPc = "respond"
    /\ btPc' = "idle"
    /\ btWeight' = <<>>
    /\ cb' = NoCallback
    /\ last' = CallbackRecord("response", cb, btWeight, <<>>, <<charValue>>)
    /\ UNCHANGED <<loopPc, fwWeight, pass>>
    /\ UNCHANGED <<pc, client_is_connected, load_cell_sampling_enabled,
                   advertising, link, extra, charValue, eventSeen,
                   subscribedSinceConnect>>
    /\ UNCHANGED appVars

----------------------------------------------------------------------------
\* The end of a pass p of loop(): loop() returns and the Arduino core calls
\* it again.
EndPass(p, reads, notified, delivered) ==
    /\ loopPc' = "loop"
    /\ fwWeight' = <<>>
    /\ pass' = NoPass
    /\ last' = TickRecord(p, reads, notified, delivered)

\* A pass p of loop() that ends having done nothing.
idle(p) ==
    /\ charValue' = charValue
    /\ EndPass(p, <<>>, <<>>, <<>>)

\* float weight = scale.get_units(5), part_003:315: the sensor returns w.
get_units(w) ==
    /\ loopPc = "get_units"
    /\ fwWeight' = <<w>>
    /\ loopPc' = "setValue"
    /\ last' = Step("pass", <<>>, <<w>>, <<>>, <<>>, <<>>)
    /\ UNCHANGED <<charValue, pass>>

\* loadCellCharacteristic->setValue(weight), part_003:316.
setValue ==
    /\ loopPc = "setValue"
    /\ charValue' = fwWeight[1]
    /\ loopPc' = "notify"
    /\ pass' = [pass EXCEPT !.stored = fwWeight]
    /\ last' = Step("pass", <<>>, <<>>, <<>>, <<>>, <<>>)
    /\ UNCHANGED fwWeight

\* loadCellCharacteristic->notify(), part_003:317: sends the value the
\* characteristic holds when it is called; ok says whether the radio layer
\* accepts it.  It is the last statement of the pass.
notify(ok) ==
    /\ loopPc = "notify"
    /\ charValue' = charValue
    /\ EndPass(pass, fwWeight, <<charValue>>,
               IF ok /\ link THEN <<charValue>> ELSE <<>>)

\* notifyWeight that notifies the sample without storing it.
notifyWeight_noStore(w, ok) ==
    \/ /\ loopPc = "get_units"
       /\ fwWeight' = <<w>>
       /\ loopPc' = "notify"
       /\ last' = Step("pass", <<>>, <<w>>, <<>>, <<>>, <<>>)
       /\ UNCHANGED <<charValue, pass>>
    \/ notify(ok)

\* notifyWeight that, after a pass whose notification was not delivered,
\* takes no new sample and notifies the value still held.
notifyWeight_resend(w, ok) ==
    \/ /\ loopPc = "get_units"
       /\ pass.prev = "tick"
       /\ pass.prevNotified # <<>>
       /\ pass.prevDelivered = <<>>
       /\ loopPc' = "notify"
       /\ last' = Step("pass", <<>>, <<>>, <<>>, <<>>, <<>>)
       /\ UNCHANGED <<charValue, fwWeight, pass>>
    \/ /\ ~(pass.prev = "tick" /\ pass.prevNotified # <<>>
                               /\ pass.prevDelivered = <<>>)
       /\ get_units(w)
    \/ setValue
    \/ notify(ok)

\* notifyWeight: its three statements, one step each.
notifyWeight(w, ok) == get_units(w) \/ setValue \/ notify(ok)

\* if (load_cell_sampling_enabled), part_003:302: the read of the flag.
stateMachine_check ==
    /\ loopPc = "stateMachine"
    /\ IF load_cell_sampling_enabled
       THEN /\ loopPc' = "get_units"
            /\ last' = Step("pass", <<>>, <<>>, <<>>, <<>>, <<>>)
            /\ UNCHANGED <<charValue, fwWeight, pass>>
       ELSE idle(pass)

\* stateMachine: sample and notify when sampling is enabled.
stateMachine ==
    \/ stateMachine_check
    \/ \E w \in Samples, ok \in BOOLEAN : notifyWeight(w, ok)

\* if (client_is_connected), part_003:293: the read of the flag, which is
\* where a pass begins.
loop_check ==
    /\ loopPc = "loop"
    /\ IF client_is_connected
       THEN /\ loopPc' = "stateMachine"
            /\ pass' = PassBegin
            /\ last' = Step("pass", <<>>, <<>>, <<>>, <<>>, <<>>)
            /\ UNCHANGED <<charValue, fwWeight>>
       ELSE idle(PassBegin)

\* loop(): do nothing if no client is connected.
loop == loop_check \/ stateMachine

\* A loop task that stops once a notification was not delivered.
Tick_haltsAfterNotifyFailure ==
    /\ pc = "run"
    /\ ~(last.op = "tick" /\ last.notified # <<>> /\ last.delivered = <<>>)
    /\ loop
    /\ UNCHANGED <<pc, client_is_connected, load_cell_sampling_enabled,
                   advertising, link, extra, eventSeen,
                   subscribedSinceConnect, btPc, btWeight, cb>>
    /\ UNCHANGED appVars

\* One step of the loop task, after setup() has returned: the next
\* statement of the pass of loop() under way.  The guide builds for the
\* ESP32, where loop() runs on the loop task and the callbacks on the
\* Bluetooth task, with no lock on the flags or on the characteristic: the
\* statements of the callbacks interleave with the statements of a pass.
Tick ==
    /\ pc = "run"
    /\ loop
    /\ UNCHANGED <<pc, client_is_connected, load_cell_sampling_enabled,
                   advertising, link, extra, eventSeen,
                   subscribedSinceConnect, btPc, btWeight, cb>>
    /\ UNCHANGED appVars

----------------------------------------------------------------------------
\* String.prototype.includes: pat occurs in s as a run of adjacent letters.
Includes(s, pat) ==
    \E i \in 0 .. (Len(s) - Len(pat)) : SubSeq(s, i + 1, i + Len(pat)) = pat

\* scannedDevice.name?.includes('BLE_SERVER'): false for a null name.
NameIncludes(name) == name # <<>> /\ Includes(name[1], BLE_SERVER)

\* toBLEDeviceVM: copies the fields of the device (those the store uses).
toBLEDeviceVM(device) ==
    [id |-> device.id, name |-> device.name, rssi |-> device.rssi]

\* a.rssi = a.rssi || -100 in the comparator of addScannedDevice.
OrDefault(rssi) ==
    IF rssi = <<>> \/ rssi = <<0>> THEN <<DefaultRssi>> ELSE rssi

\* d put into the list sorted by falling rssi, after the entries that do
\* not compare below it (the sort is stable).
RECURSIVE InsertByRssi(_, _)
InsertByRssi(d, sorted) ==
    IF sorted = <<>> THEN <<d>>
    ELSE IF d.rssi[1] > Head(sorted).rssi[1]
         THEN <<d>> \o sorted
         ELSE <<Head(sorted)>> \o InsertByRssi(d, Tail(sorted))

\* The comparator applied to the entries of ds from the left.
RECURSIVE SortInto(_, _)
SortInto(ds, sorted) ==
    IF ds = <<>> THEN sorted
    ELSE SortInto(Tail(ds),
                  InsertByRssi([Head(ds) EXCEPT !.rssi = OrDefault(@)], sorted))

\* updatedDevices.sort(...): the comparator runs only when there are two
\* entries or more, and it rewrites the rssi of every entry it compares.
SortByRssi(ds) == IF Len(ds) < 2 THEN ds ELSE SortInto(ds, <<>>)

\* An addScannedDevice that keeps the entry with the same id.
addScannedDevice_noFilter(devs, device) ==
    SortByRssi(<<device>> \o devs)

\* The addScannedDevice reducer: drop the entry with the same id, put the
\* device in front, sort.
addScannedDevice(devs, device) ==
    LET existingDevices == SelectSeq(devs, LAMBDA e : device.id # e.id)
        updatedDevices == <<device>> \o existingDevices
    IN  SortByRssi(updatedDevices)

\* scanBleDevices: bleManager.startDeviceScan with the scan callback.
scanBleDevices ==
    /\ scanning' = TRUE
    /\ lastScan' = [op |-> "start", device |-> <<>>, dispatched |-> FALSE,
                    replaced |-> <<>>]
    /\ UNCHANGED devices
    /\ UNCHANGED fwVars

\* The stopDeviceScan reducer: bleManager.stopDeviceScan().
stopDeviceScan ==
    /\ scanning' = FALSE
    /\ lastScan' = [op |-> "stop", device |-> <<>>, dispatched |-> FALSE,
                    replaced |-> <<>>]
    /\ UNCHANGED devices
    /\ UNCHANGED fwVars

\* The clearScannedDevices reducer.
clearScannedDevices ==
    /\ devices' = <<>>
    /\ lastScan' = [op |-> "clear", device |-> <<>>, dispatched |-> FALSE,
                    replaced |-> <<>>]
    /\ UNCHANGED scanning
    /\ UNCHANGED fwVars

\* The entries of the list that carry the id (history: what an
\* addScannedDevice found listed under the id of its device).
Listed(devs, id) == SelectSeq(devs, LAMBDA e : e.id = id)

\* A scan callback that dispatches every device the library reports.
scanCallback_noNameCheck(error, scannedDevice) ==
    LET add == ~error /\ scannedDevice # <<>>
    IN  /\ devices' = IF add
                      THEN addScannedDevice(devices,
                                            toBLEDeviceVM(scannedDevice[1]))
                      ELSE devices
        /\ lastScan' = [op |-> "result", device |-> scannedDevice,
                        dispatched |-> add,
                        replaced |-> IF add
                                     THEN Listed(devices, scannedDevice[1].id)
                                     ELSE <<>>]

\* The callback given to startDeviceScan: it throws on an error, and
\* dispatches addScannedDevice for a device whose name includes BLE_SERVER.
scanCallback(error, scannedDevice) ==
    LET add == /\ ~error
               /\ scannedDevice # <<>>
               /\ NameIncludes(scannedDevice[1].name)
    IN  /\ devices' = IF add
                      THEN addScannedDevice(devices,
                                            toBLEDeviceVM(scannedDevice[1]))
                      ELSE devices
        /\ lastScan' = [op |-> "result", device |-> scannedDevice,
                        dispatched |-> add,
                        replaced |-> IF add
                                     THEN Listed(devices, scannedDevice[1].id)
                                     ELSE <<>>]

\* The library reports a scan result to the callback scanBleDevices gave
\* it: an error with no device, or no device, or one of the devices
\* reported.
ScanResult(reported) ==
    /\ scanning
    /\ \E error \in BOOLEAN,
          scannedDevice \in {<<>>} \cup {<<d>> : d \in reported} :
            /\ error => scannedDevice = <<>>
            /\ scanCallback(error, scannedDevice)
    /\ lastAct' = [type |-> "scanCallback", message |-> <<>>,
                   payload |-> <<>>, value |-> <<>>,
                   prevDevice |-> ble.connectedDevice]
    /\ UNCHANGED scanning
    /\ UNCHANGED fwVars
    /\ UNCHANGED <<ble, thunkVars, adapterState, mgrVars, effectVars,
                   isScanning, weightVars>>

\* The device scan of the application, with devices of every name and
\* signal strength in range.
ScanNext ==
    \/ scanBleDevices /\ UNCHANGED restVars
    \/ stopDeviceScan /\ UNCHANGED restVars
    \/ clearScannedDevices /\ UNCHANGED restVars
    \/ ScanResult(ScannedDevices)

----------------------------------------------------------------------------
\* The connection of the application to a peripheral: the thunks
\* connectDeviceById and disconnectDevice of the slice with their reducers
\* (src/unnamed/part_001), BLEManager, the scan button of BLEScreen and
\* WeightScreen.  A thunk in flight is a record that holds the call it
\* awaits; a step runs the code between two awaits.  An effect of a
\* component runs as a step of its own after the render that scheduled it.

\* s without its i-th entry.
RemoveAt(s, i) == SubSeq(s, 1, i - 1) \o SubSeq(s, i + 1, Len(s))

\* The calls in flight are held in the order of this key: the order in
\* which they were dispatched has no effect on what they do.
CallKey(c) ==
    IF "id" \in DOMAIN c
    THEN 3 * c.id + (IF c.pc = "connectToDevice" THEN 0
                     ELSE IF c.pc = "discover" THEN 1 ELSE 2)
    ELSE (MaxDevices + 1) * c.checked
             + (IF c.target = <<>> THEN 0 ELSE c.target[1])

\* calls with the call c put in.
RECURSIVE PutCall(_, _)
PutCall(calls, c) ==
    IF calls = <<>> THEN <<c>>
    ELSE IF CallKey(c) <= CallKey(Head(calls))
         THEN <<c>> \o calls
         ELSE <<Head(calls)>> \o PutCall(Tail(calls), c)

\* The record of the latest application step.
Act(type, message, payload, value) ==
    [type |-> type, message |-> message, payload |-> payload,
     value |-> value, prevDevice |-> ble.connectedDevice]

\* The setConnectedDevice reducer; device is null or a device.
setConnectedDevice(state, device) ==
    [state EXCEPT !.connectedDevice = device]

\* extraReducers, connectDeviceById.pending.
connectDeviceById_pending(state) ==
    [state EXCEPT !.status = NetworkState.LOADING, !.error = ""]

\* extraReducers, connectDeviceById.fulfilled.
connectDeviceById_fulfilled(state, payload) ==
    [state EXCEPT !.status = NetworkState.SUCCESS,
                  !.connectedDevice = <<payload>>]

\* connectDeviceById.rejected that also clears connectedDevice.
connectDeviceById_rejected_clearsDevice(state, message) ==
    IF message = <<NetworkState.CANCELED>>
    THEN [state EXCEPT !.status = NetworkState.CANCELED,
                       !.error = message[1],
                       !.connectedDevice = <<>>]
    ELSE [state EXCEPT !.status = NetworkState.ERROR,
                       !.error = IF message = <<>> THEN "" ELSE message[1],
                       !.connectedDevice = <<>>]

\* extraReducers, connectDeviceById.rejected; message is
\* action.error.message.
connectDeviceById_rejected(state, message) ==
    IF message = <<NetworkState.CANCELED>>
    THEN [state EXCEPT !.status = NetworkState.CANCELED,
                       !.error = message[1]]
    ELSE [state EXCEPT !.status = NetworkState.ERROR,
                       !.error = IF message = <<>> THEN "" ELSE message[1]]

\* extraReducers, disconnectDevice.pending.
disconnectDevice_pending(state) ==
    [state EXCEPT !.status = NetworkState.LOADING, !.error = ""]

\* disconnectDevice.fulfilled that leaves the status as it is.
disconnectDevice_fulfilled_keepsStatus(state) ==
    [state EXCEPT !.connectedDevice = <<>>]

\* extraReducers, disconnectDevice.fulfilled.
disconnectDevice_fulfilled(state) ==
    [state EXCEPT !.status = NetworkState.CANCELED, !.connectedDevice = <<>>]

\* disconnectDevice.rejected that leaves connectedDevice as it is.
disconnectDevice_rejected_keepsDevice(state, message) ==
    IF message = <<NetworkState.CANCELED>>
    THEN [state EXCEPT !.status = NetworkState.CANCELED,
                       !.error = message[1]]
    ELSE [state EXCEPT !.status = NetworkState.ERROR,
                       !.error = IF message = <<>> THEN "" ELSE message[1]]

\* extraReducers, disconnectDevice.rejected.
disconnectDevice_rejected(state, message) ==
    IF message = <<NetworkState.CANCELED>>
    THEN [state EXCEPT !.status = NetworkState.CANCELED,
                       !.error = message[1],
                       !.connectedDevice = <<>>]
    ELSE [state EXCEPT !.status = NetworkState.ERROR,
                       !.error = IF message = <<>> THEN "" ELSE message[1],
                       !.connectedDevice = <<>>]

\* if (weight), weight &&: null and 0 are falsy.
Truthy(w) == w # <<>> /\ w[1] # 0

\* WeightScreen renders WeightWidget (WeightScreen.tsx:73-76) when it is
\* mounted, the store holds a device and the weight is truthy.
WidgetShown(mounted, device, w) == mounted /\ device # <<>> /\ Truthy(w)

\* The commit of a render of WeightScreen that is mounted or not, with the
\* device and the weight w: a widget that is not rendered keeps no state, a
\* widget that mounts starts with renderedWeight '' and its effect due, and
\* a widget that stays has its effect due when its weight changed.  The
\* text shown is renderedWeight as it is before the effect has run.
WidgetCommit(mounted, device, w) ==
    IF ~WidgetShown(mounted, device, w)
    THEN renderedWeight' = <<>> /\ widgetEffectDue' = FALSE
    ELSE IF ~WidgetShown(weightMounted, ble.connectedDevice, weight)
         THEN renderedWeight' = <<>> /\ widgetEffectDue' = TRUE
         ELSE /\ renderedWeight' = renderedWeight
              /\ widgetEffectDue' = (widgetEffectDue \/ w # weight)

\* The store takes the state a reducer returned.  A component that selects
\* connectedDevice renders again when the selected value changed, and its
\* effect on [connectedDevice] is then due; fresh says that the reducer
\* stored a new device object.
StoreUpdate(state, fresh) ==
    LET changed == fresh \/ state.connectedDevice # ble.connectedDevice
    IN  /\ ble' = state
        /\ mgrEffectDue' = (mgrEffectDue \/ (mgrMounted /\ changed))
        /\ screenEffectDue' = (screenEffectDue \/ changed)
        /\ weightEffectDue' = (weightEffectDue \/ (weightMounted /\ changed))
        /\ WidgetCommit(weightMounted, state.connectedDevice, weight)

\* stopScan of the slice: bleManager.stopDeviceScan().
stopScan == scanning' = FALSE

\* The library reports the disconnection of a peripheral to the
\* onDisconnected listeners registered for it.
EmitDisconnected(id) ==
    events' = IF BagIn(DisconnectedSubscription(id), registered)
              THEN events \cup {id}
              ELSE events

\* connectDeviceById without the call of stopScan.
connectDeviceById_noStopScan(id) ==
    /\ Len(connectCalls) + Len(disconnectCalls) < MaxInFlight
    /\ StoreUpdate(connectDeviceById_pending(ble), FALSE)
    /\ UNCHANGED scanning
    /\ connectCalls' = PutCall(connectCalls,
                              [id |-> id, pc |-> "connectToDevice",
                               scanning |-> scanning'])
    /\ lastAct' = Act("connectDeviceById/pending", <<>>, <<>>, <<>>)
    /\ UNCHANGED <<fwVars, devices, lastScan, sliceDevice, connected,
                   disconnectCalls, adapterState, mgrVars, isScanning,
                   weightVars>>

\* dispatch(connectDeviceById({id})): the pending action, then the thunk up
\* to its first await: stopScan(), then bleManager.connectToDevice(id).
\* The call records whether a scan ran when connectToDevice was called.
connectDeviceById(id) ==
    /\ Len(connectCalls) + Len(disconnectCalls) < MaxInFlight
    /\ StoreUpdate(connectDeviceById_pending(ble), FALSE)
    /\ stopScan
    /\ connectCalls' = PutCall(connectCalls,
                              [id |-> id, pc |-> "connectToDevice",
                               scanning |-> scanning'])
    /\ lastAct' = Act("connectDeviceById/pending", <<>>, <<>>, <<>>)
    /\ UNCHANGED <<fwVars, devices, lastScan, sliceDevice, connected,
                   disconnectCalls, adapterState, mgrVars, isScanning,
                   weightVars>>

\* connectToDevice settles for the i-th call: the peripheral is linked and
\* device is assigned, then discoverAllServicesAndCharacteristicsForDevice
\* is called; or the call throws and the thunk is rejected.
connectDeviceById_connected(i) ==
    /\ i \in 1 .. Len(connectCalls)
    /\ connectCalls[i].pc = "connectToDevice"
    /\ \E ok \in BOOLEAN :
          IF ok
          THEN /\ connected' = connected \cup {connectCalls[i].id}
               /\ sliceDevice' = <<DeviceOf(connectCalls[i].id)>>
               /\ connectCalls' =
                      PutCall(RemoveAt(connectCalls, i),
                              [connectCalls[i] EXCEPT !.pc = "discover"])
               /\ lastAct' = Act("connectToDevice", <<>>, <<>>, <<>>)
               /\ UNCHANGED <<ble, effectVars>>
          ELSE /\ StoreUpdate(
                      connectDeviceById_rejected(ble, <<ErrorToString>>),
                      FALSE)
               /\ connectCalls' = RemoveAt(connectCalls, i)
               /\ lastAct' = Act("connectDeviceById/rejected",
                                 <<ErrorToString>>, <<>>, <<>>)
               /\ UNCHANGED <<connected, sliceDevice>>
    /\ UNCHANGED <<fwVars, scanVars, disconnectCalls, adapterState, mgrVars,
                   isScanning, weightVars>>

\* discoverAllServicesAndCharacteristicsForDevice settles for the i-th
\* call: the thunk calls deviceChars.services(); or the call throws (as it
\* does for a peripheral that is not linked) and the thunk is rejected.
connectDeviceById_discovered(i) ==
    /\ i \in 1 .. Len(connectCalls)
    /\ connectCalls[i].pc = "discover"
    /\ \E ok \in BOOLEAN :
          /\ ok => connectCalls[i].id \in connected
          /\ IF ok
             THEN /\ connectCalls' =
                         PutCall(RemoveAt(connectCalls, i),
                                 [connectCalls[i] EXCEPT !.pc = "services"])
                  /\ lastAct' = Act("discover", <<>>, <<>>, <<>>)
                  /\ UNCHANGED <<ble, effectVars>>
             ELSE /\ StoreUpdate(
                         connectDeviceById_rejected(ble, <<ErrorToString>>),
                         FALSE)
                  /\ connectCalls' = RemoveAt(connectCalls, i)
                  /\ lastAct' = Act("connectDeviceById/rejected",
                                    <<ErrorToString>>, <<>>, <<>>)
    /\ UNCHANGED <<fwVars, scanVars, sliceDevice, connected, disconnectCalls,
                   adapterState, mgrVars, isScanning, weightVars>>

\* deviceChars.services() settles for the i-th call: the thunk returns
\* toBLEDeviceVM({...device, serviceUUIDs}) of the module-level device as
\* it is now; or the call throws (as it does for a peripheral that is not
\* linked) and the thunk is rejected.
connectDeviceById_services(i) ==
    /\ i \in 1 .. Len(connectCalls)
    /\ connectCalls[i].pc = "services"
    /\ \E ok \in BOOLEAN :
          /\ ok => connectCalls[i].id \in connected
          /\ IF ok
             THEN /\ StoreUpdate(
                         connectDeviceById_fulfilled(
                             ble, toBLEDeviceVM(sliceDevice[1])),
                         TRUE)
                  /\ lastAct' = Act("connectDeviceById/fulfilled", <<>>,
                                    <<toBLEDeviceVM(sliceDevice[1])>>, <<>>)
             ELSE /\ StoreUpdate(
                         connectDeviceById_rejected(ble, <<ErrorToString>>),
                         FALSE)
                  /\ lastAct' = Act("connectDeviceById/rejected",
                                    <<ErrorToString>>, <<>>, <<>>)
    /\ connectCalls' = RemoveAt(connectCalls, i)
    /\ UNCHANGED <<fwVars, scanVars, sliceDevice, connected, disconnectCalls,
                   adapterState, mgrVars, isScanning, weightVars>>

\* calls with the call c put in n times.
RECURSIVE PutCalls(_, _, _)
PutCalls(calls, c, n) ==
    IF n = 0 THEN calls ELSE PutCalls(PutCall(calls, c), c, n - 1)

\* dispatch(disconnectDevice()), n times in one turn of the event loop:
\* each time the pending action, then the thunk up to its first await:
\* with a device it calls device.isConnected(); with none it throws, and
\* the rejected action is dispatched when createAsyncThunk has awaited the
\* payload creator.
disconnectDevice_times(n) ==
    /\ Len(connectCalls) + Len(disconnectCalls) + n <= MaxInFlight
    /\ StoreUpdate(disconnectDevice_pending(ble), FALSE)
    /\ disconnectCalls' =
           PutCalls(disconnectCalls,
                    IF sliceDevice # <<>>
                    THEN [pc |-> "isConnected",
                          checked |-> sliceDevice[1].id, target |-> <<>>]
                    ELSE [pc |-> "thrown", checked |-> 0, target |-> <<>>],
                    n)
    /\ lastAct' = Act("disconnectDevice/pending", <<>>, <<>>, <<>>)

\* dispatch(disconnectDevice()).
disconnectDevice == disconnectDevice_times(1)

\* disconnectDevice dispatched by a caller of the slice.
DispatchDisconnect ==
    /\ disconnectDevice
    /\ UNCHANGED <<fwVars, scanVars, sliceDevice, connected, connectCalls,
                   adapterState, mgrVars, isScanning, weightVars>>

\* The i-th call has thrown 'Device is undefined.': the thunk is rejected.
disconnectDevice_thrown(i) ==
    /\ i \in 1 .. Len(disconnectCalls)
    /\ disconnectCalls[i].pc = "thrown"
    /\ StoreUpdate(disconnectDevice_rejected(ble, <<DeviceIsUndefined>>),
                   FALSE)
    /\ disconnectCalls' = RemoveAt(disconnectCalls, i)
    /\ lastAct' = Act("disconnectDevice/rejected", <<DeviceIsUndefined>>,
                      <<>>, <<>>)
    /\ UNCHANGED <<fwVars, scanVars, sliceDevice, connected, connectCalls,
                   adapterState, mgrVars, isScanning, weightVars>>

\* device.isConnected() settles for the i-th call: for a linked device the
\* thunk calls cancelConnection() on what the module-level device holds
\* now, else it throws.
disconnectDevice_checked(i) ==
    /\ i \in 1 .. Len(disconnectCalls)
    /\ disconnectCalls[i].pc = "isConnected"
    /\ LET isDeviceConnected == disconnectCalls[i].checked \in connected
       IN  IF isDeviceConnected
           THEN /\ disconnectCalls' =
                       PutCall(RemoveAt(disconnectCalls, i),
                               [disconnectCalls[i] EXCEPT
                                   !.pc = "cancelConnection",
                                   !.target = <<sliceDevice[1].id>>])
                /\ lastAct' = Act("isConnected", <<>>, <<>>, <<>>)
                /\ UNCHANGED <<ble, effectVars>>
           ELSE /\ StoreUpdate(
                       disconnectDevice_rejected(ble, <<NoDeviceConnected>>),
                       FALSE)
                /\ disconnectCalls' = RemoveAt(disconnectCalls, i)
                /\ lastAct' = Act("disconnectDevice/rejected",
                                  <<NoDeviceConnected>>, <<>>, <<>>)
    /\ UNCHANGED <<fwVars, scanVars, sliceDevice, connected, connectCalls,
                   adapterState, mgrVars, isScanning, weightVars>>

\* cancelConnection() settles for the i-th call: the link of the device it
\* was called on is closed and the thunk is fulfilled; the library throws
\* for a device that is not linked.
disconnectDevice_cancelled(i) ==
    /\ i \in 1 .. Len(disconnectCalls)
    /\ disconnectCalls[i].pc = "cancelConnection"
    /\ LET target == disconnectCalls[i].target[1]
       IN  IF target \in connected
           THEN /\ connected' = connected \ {target}
                /\ EmitDisconnected(target)
                /\ StoreUpdate(disconnectDevice_fulfilled(ble), FALSE)
                /\ lastAct' = Act("disconnectDevice/fulfilled", <<>>, <<>>,
                                  <<>>)
           ELSE /\ StoreUpdate(
                       disconnectDevice_rejected(ble, <<DeviceNotConnected>>),
                       FALSE)
                /\ lastAct' = Act("disconnectDevice/rejected",
                                  <<DeviceNotConnected>>, <<>>, <<>>)
                /\ UNCHANGED <<connected, events>>
    /\ disconnectCalls' = RemoveAt(disconnectCalls, i)
    /\ UNCHANGED <<fwVars, scanVars, sliceDevice, connectCalls, adapterState,
                   mgrMounted, mgrDevice, mgrChecks, registered,
                   subscriptions, isScanning, weightVars>>

\* The peripheral with this id drops its link.
LinkDrop(id) ==
    /\ id \in connected
    /\ connected' = connected \ {id}
    /\ EmitDisconnected(id)
    /\ lastAct' = Act("drop", <<>>, <<>>, <<id>>)
    /\ UNCHANGED <<fwVars, scanVars, ble, sliceDevice, connectCalls,
                   disconnectCalls, adapterState, mgrMounted, mgrDevice,
                   mgrChecks, registered, subscriptions, effectVars,
                   isScanning, weightVars>>

\* The lifecycle actions of the two thunks dispatched on their own, in any
\* order and with any message.
DispatchConnectPending ==
    /\ StoreUpdate(connectDeviceById_pending(ble), FALSE)
    /\ lastAct' = Act("connectDeviceById/pending", <<>>, <<>>, <<>>)
    /\ UNCHANGED <<fwVars, scanVars, thunkVars, adapterState, mgrVars,
                   isScanning, weightVars>>

\* The payload is a new device object (fresh) or the very object the store
\* holds: the reducer then assigns what is there, the selector returns the
\* same reference and nothing renders again.
DispatchConnectFulfilled ==
    /\ \E id \in DeviceIds, fresh \in BOOLEAN :
          /\ ~fresh => ble.connectedDevice = <<toBLEDeviceVM(DeviceOf(id))>>
          /\ StoreUpdate(
                 connectDeviceById_fulfilled(ble, toBLEDeviceVM(DeviceOf(id))),
                 fresh)
          /\ lastAct' = Act("connectDeviceById/fulfilled", <<>>,
                            <<toBLEDeviceVM(DeviceOf(id))>>, <<>>)
    /\ UNCHANGED <<fwVars, scanVars, thunkVars, adapterState, mgrVars,
                   isScanning, weightVars>>

DispatchConnectRejected ==
    /\ \E message \in ErrorMessages :
          /\ StoreUpdate(connectDeviceById_rejected(ble, message), FALSE)
          /\ lastAct' = Act("connectDeviceById/rejected", message, <<>>,
                            <<>>)
    /\ UNCHANGED <<fwVars, scanVars, thunkVars, adapterState, mgrVars,
                   isScanning, weightVars>>

DispatchDisconnectPending ==
    /\ StoreUpdate(disconnectDevice_pending(ble), FALSE)
    /\ lastAct' = Act("disconnectDevice/pending", <<>>, <<>>, <<>>)
    /\ UNCHANGED <<fwVars, scanVars, thunkVars, adapterState, mgrVars,
                   isScanning, weightVars>>

DispatchDisconnectFulfilled ==
    /\ StoreUpdate(disconnectDevice_fulfilled(ble), FALSE)
    /\ lastAct' = Act("disconnectDevice/fulfilled", <<>>, <<>>, <<>>)
    /\ UNCHANGED <<fwVars, scanVars, thunkVars, adapterState, mgrVars,
                   isScanning, weightVars>>

DispatchDisconnectRejected ==
    /\ \E message \in ErrorMessages :
          /\ StoreUpdate(disconnectDevice_rejected(ble, message), FALSE)
          /\ lastAct' = Act("disconnectDevice/rejected", message, <<>>,
                            <<>>)
    /\ UNCHANGED <<fwVars, scanVars, thunkVars, adapterState, mgrVars,
                   isScanning, weightVars>>

\* The setConnectedDevice action of the slice dispatched on its own; no
\* component and no thunk of the application dispatches it.  The payload is
\* null, a new device object (fresh), or the very object the store holds:
\* the reducer then assigns what is there, and nothing renders again.
DispatchSetConnectedDevice ==
    /\ \E device \in {<<>>} \cup
                      {<<toBLEDeviceVM(DeviceOf(id))>> : id \in DeviceIds},
          fresh \in BOOLEAN :
          /\ fresh => device # <<>>
          /\ (~fresh /\ device # <<>>) => device = ble.connectedDevice
          /\ StoreUpdate(setConnectedDevice(ble, device), fresh)
          /\ lastAct' = Act("ble/setConnectedDevice", <<>>, device, <<>>)
    /\ UNCHANGED <<fwVars, scanVars, thunkVars, adapterState, mgrVars,
                   isScanning, weightVars>>

LifecycleNext ==
    \/ DispatchConnectPending
    \/ DispatchConnectFulfilled
    \/ DispatchConnectRejected
    \/ DispatchDisconnectPending
    \/ DispatchDisconnectFulfilled
    \/ DispatchDisconnectRejected

\* Every action of the slice that writes the connection state, in any
\* order.
SliceNext ==
    \/ LifecycleNext
    \/ DispatchSetConnectedDevice

\* The two thunks and the peripherals.
ConnNext ==
    \/ \E id \in DeviceIds : connectDeviceById(id)
    \/ \E i \in 1 .. MaxInFlight : connectDeviceById_connected(i)
    \/ \E i \in 1 .. MaxInFlight : connectDeviceById_discovered(i)
    \/ \E i \in 1 .. MaxInFlight : connectDeviceById_services(i)
    \/ DispatchDisconnect
    \/ \E i \in 1 .. MaxInFlight : disconnectDevice_thrown(i)
    \/ \E i \in 1 .. MaxInFlight : disconnectDevice_checked(i)
    \/ \E i \in 1 .. MaxInFlight : disconnectDevice_cancelled(i)
    \/ \E id \in DeviceIds : LinkDrop(id)

----------------------------------------------------------------------------
\* BLEManager (src/components/BLEManager/BLEManager.tsx).

\* disconnectCallback, called once for each of the listeners registered on
\* the device, one after the other in the same turn: it dispatches
\* disconnectDevice when the connectedDevice of the render that registered
\* it is not null.
disconnectCallback(connectedDevice, listeners) ==
    IF connectedDevice # <<>>
    THEN disconnectDevice_times(listeners)
    ELSE /\ lastAct' = Act("disconnectCallback", <<>>, <<>>, <<>>)
         /\ UNCHANGED <<ble, effectVars, disconnectCalls>>

\* The library delivers the disconnection of the peripheral to every
\* listener checkDevices registered on it; the render that registered a
\* listener had the device as connectedDevice.
onDisconnected(id) ==
    /\ id \in events
    /\ events' = events \ {id}
    /\ disconnectCallback(<<toBLEDeviceVM(DeviceOf(id))>>,
                          CopiesIn(DisconnectedSubscription(id), registered))
    /\ UNCHANGED <<fwVars, scanVars, sliceDevice, connected, connectCalls,
                   adapterState, mgrMounted, mgrDevice, mgrChecks,
                   registered, subscriptions, isScanning, weightVars>>

\* The effect on [connectedDevice] runs checkDevices up to its await: with
\* a connected device in the store and no module-level device it calls
\* bleManager.connectToDevice(connectedDevice.id), whether or not an
\* earlier call still awaits its own.
checkDevices ==
    /\ mgrMounted
    /\ mgrEffectDue
    /\ mgrEffectDue' = FALSE
    /\ IF ble.connectedDevice # <<>> /\ mgrDevice = <<>>
       THEN /\ BagCardinality(mgrChecks) < MaxChecks
            /\ mgrChecks' = mgrChecks (+) SetToBag({ble.connectedDevice[1].id})
       ELSE mgrChecks' = mgrChecks
    /\ lastAct' = Act("checkDevices", <<>>, <<>>, <<>>)
    /\ UNCHANGED <<fwVars, scanVars, ble, thunkVars, adapterState,
                   mgrMounted, mgrDevice, registered, subscriptions, events,
                   screenEffectDue, weightEffectDue, widgetEffectDue,
                   renderedWeight, isScanning, weightVars>>

\* connectToDevice of a call of checkDevices resolves: the module-level
\* device is assigned, onDisconnected is registered on it and the
\* subscription is added to the subscriptions state.
checkDevices_connected(id) ==
    /\ BagIn(id, mgrChecks)
    /\ mgrChecks' = mgrChecks (-) SetToBag({id})
    /\ connected' = connected \cup {id}
    /\ mgrDevice' = <<DeviceOf(id)>>
    /\ registered' = registered (+) SetToBag({DisconnectedSubscription(id)})
    /\ subscriptions' =
           IF mgrMounted
           THEN subscriptions (+) SetToBag({DisconnectedSubscription(id)})
           ELSE subscriptions
    /\ lastAct' = Act("onDisconnected", <<>>, <<>>, <<>>)
    /\ UNCHANGED <<fwVars, scanVars, ble, sliceDevice, connectCalls,
                   disconnectCalls, adapterState, mgrMounted, events,
                   effectVars, isScanning, weightVars>>

\* connectToDevice of a call of checkDevices rejects: checkDevices ends
\* there, the module-level device stays as it is and no listener is
\* registered (BLEManager.tsx:38-40).
checkDevices_rejected(id) ==
    /\ BagIn(id, mgrChecks)
    /\ mgrChecks' = mgrChecks (-) SetToBag({id})
    /\ lastAct' = Act("checkDevices/rejected", <<>>, <<>>, <<>>)
    /\ UNCHANGED <<fwVars, scanVars, ble, thunkVars, adapterState,
                   mgrMounted, mgrDevice, registered, subscriptions, events,
                   effectVars, isScanning, weightVars>>

\* The callback of bleManager.onStateChange: it dispatches setAdapterState
\* and adds the subscription to the subscriptions state; it is the same
\* subscription object every time, and its entries act as one.
onStateChange(state) ==
    /\ BagIn(StateSubscription, registered)
    /\ adapterState' = state
    /\ subscriptions' = IF mgrMounted /\ ~BagIn(StateSubscription, subscriptions)
                        THEN subscriptions (+) SetToBag({StateSubscription})
                        ELSE subscriptions
    /\ screenEffectDue' = (screenEffectDue \/ state # adapterState)
    /\ lastAct' = Act("setAdapterState", <<>>, <<>>, <<>>)
    /\ UNCHANGED <<fwVars, scanVars, ble, thunkVars, mgrMounted, mgrDevice,
                   mgrChecks, registered, events, mgrEffectDue,
                   weightEffectDue, widgetEffectDue, renderedWeight,
                   isScanning, weightVars>>

\* The subscriptions state of the first render, the render whose effect
\* returned the cleanup.
FirstRenderSubscriptions == EmptyBag

\* The subscriptions the cleanup of the mount effect calls remove() on:
\* those of the subscriptions state its closure holds.
cleanup == FirstRenderSubscriptions

\* BLEManager unmounts: the cleanup removes the subscriptions it reads and
\* sets the subscriptions state to [].
BLEManager_unmount ==
    /\ mgrMounted
    /\ mgrMounted' = FALSE
    /\ registered' = registered (-) cleanup
    /\ subscriptions' = EmptyBag
    /\ mgrEffectDue' = FALSE
    /\ lastAct' = Act("BLEManager/unmount", <<>>, <<>>, <<>>)
    /\ UNCHANGED <<fwVars, scanVars, ble, thunkVars, adapterState, mgrDevice,
                   mgrChecks, events, screenEffectDue, weightEffectDue,
                   widgetEffectDue, renderedWeight, isScanning, weightVars>>

\* The application with BLEManager: connectDeviceById is dispatched by the
\* device list, disconnectDevice by disconnectCallback.  The callback
\* dispatches with a connected device in the store, which connectDeviceById
\* stores after it has assigned the module-level device of the slice, so no
\* disconnectDevice throws 'Device is undefined.' here.
MgrNext ==
    \/ \E id \in DeviceIds : connectDeviceById(id)
    \/ \E i \in 1 .. MaxInFlight : connectDeviceById_connected(i)
    \/ \E i \in 1 .. MaxInFlight : connectDeviceById_discovered(i)
    \/ \E i \in 1 .. MaxInFlight : connectDeviceById_services(i)
    \/ \E i \in 1 .. MaxInFlight : disconnectDevice_checked(i)
    \/ \E i \in 1 .. MaxInFlight : disconnectDevice_cancelled(i)
    \/ \E id \in DeviceIds : LinkDrop(id)
    \/ \E id \in DeviceIds : onDisconnected(id)
    \/ checkDevices
    \/ \E id \in DeviceIds : checkDevices_connected(id)
    \/ \E id \in DeviceIds : checkDevices_rejected(id)
    \/ \E state \in AdapterStates : onStateChange(state)
    \/ BLEManager_unmount

----------------------------------------------------------------------------
\* BLEScreen (src/components/button/PrimaryButton.tsx).

\* A scanPressHandler that starts the scan in every adapter state.
scanPressHandler_noAdapterCheck ==
    /\ IF isScanning
       THEN /\ stopDeviceScan
            /\ isScanning' = FALSE
       ELSE /\ scanBleDevices
            /\ isScanning' = TRUE
    /\ screenEffectDue' = (screenEffectDue \/ isScanning' # isScanning)
    /\ lastAct' = Act("scanPress", <<>>, <<>>, <<>>)
    /\ UNCHANGED <<ble, thunkVars, adapterState, mgrVars, mgrEffectDue,
                   weightEffectDue, widgetEffectDue, renderedWeight,
                   weightVars>>

\* scanPressHandler: stop the scan when scanning, start it when the
\* adapter is powered on, else only a toast.
scanPressHandler ==
    /\ IF isScanning
       THEN /\ stopDeviceScan
            /\ isScanning' = FALSE
       ELSE IF ToLowerCase(adapterState) = "poweredon"
            THEN /\ scanBleDevices
                 /\ isScanning' = TRUE
            ELSE UNCHANGED <<fwVars, scanVars, isScanning>>
    /\ screenEffectDue' = (screenEffectDue \/ isScanning' # isScanning)
    /\ lastAct' = Act("scanPress", <<>>, <<>>, <<>>)
    /\ UNCHANGED <<ble, thunkVars, adapterState, mgrVars, mgrEffectDue,
                   weightEffectDue, widgetEffectDue, renderedWeight,
                   weightVars>>

\* The effect of BLEScreen on [adapterState, bleDevice, isScanning]: with a
\* connected device it dispatches stopDeviceScan and sets isScanning false
\* (which schedules the effect again when isScanning was true).
BLEScreen_useEffect ==
    /\ screenEffectDue
    /\ IF ble.connectedDevice # <<>>
       THEN /\ stopDeviceScan
            /\ isScanning' = FALSE
       ELSE UNCHANGED <<fwVars, scanVars, isScanning>>
    /\ screenEffectDue' = (isScanning' # isScanning)
    /\ lastAct' = Act("BLEScreen/effect", <<>>, <<>>, <<>>)
    /\ UNCHANGED <<ble, thunkVars, adapterState, mgrVars, mgrEffectDue,
                   weightEffectDue, widgetEffectDue, renderedWeight,
                   weightVars>>

\* The application with BLEScreen: the scan the button starts reports the
\* peripherals in range to the scan callback.
ScreenNext ==
    \/ ConnNext
    \/ scanPressHandler
    \/ ScanResult(InRange)
    \/ BLEScreen_useEffect
    \/ \E state \in AdapterStates : onStateChange(state)

----------------------------------------------------------------------------
\* WeightScreen (src/screens/weight/WeightScreen.tsx).  A weight is held in
\* thirds of a gram, so that res * 1000 has a fraction Math.round acts on.

\* Math.round of a weight in thirds of a gram, in grams: the whole number
\* nearest to w / 3 (a result of -0 reads as 0).
Round(w) == (2 * w + 3) \div 6

\* The effect of WeightWidget on [weight]: it sets renderedWeight to
\* Math.round(weight) when weight is truthy.
WeightWidget(w, rendered) ==
    IF Truthy(w) THEN <<Round(w[1])>> ELSE rendered

\* The effect of WeightWidget runs, after the commit of the render that
\* scheduled it.
WeightWidget_useEffect ==
    /\ widgetEffectDue
    /\ widgetEffectDue' = FALSE
    /\ renderedWeight' = WeightWidget(weight, renderedWeight)
    /\ lastAct' = Act("WeightWidget/effect", <<>>, <<>>, <<>>)
    /\ UNCHANGED <<fwVars, scanVars, ble, thunkVars, adapterState, mgrVars,
                   mgrEffectDue, screenEffectDue, weightEffectDue,
                   isScanning, weightVars>>

\* weightMonitorCallbackHandler: a characteristic with a value sets the
\* weight to the float it carries times 1000.
weightMonitorCallbackHandler(w, characteristic) ==
    IF characteristic # <<>> THEN <<characteristic[1]>> ELSE w

\* ms without the first entry that is id.
RECURSIVE RemoveFirst(_, _)
RemoveFirst(ms, id) ==
    IF ms = <<>> THEN <<>>
    ELSE IF Head(ms) = id THEN Tail(ms)
         ELSE <<Head(ms)>> \o RemoveFirst(Tail(ms), id)

\* A cleanup that finds no subscription to remove.
cleanupSubscriptions_noRemove(ms, sub) == ms

\* cleanupSubscriptions: remove() on the subscription the effect that
\* returned it registered, if it registered one.
cleanupSubscriptions(ms, sub) ==
    IF sub # <<>> THEN RemoveFirst(ms, sub[1]) ELSE ms

\* WeightScreen mounts: weight is null and the effect is due.
WeightScreen_mount ==
    /\ ~weightMounted
    /\ weightMounted' = TRUE
    /\ weight' = <<>>
    /\ weightEffectDue' = TRUE
    /\ WidgetCommit(TRUE, ble.connectedDevice, <<>>)
    /\ lastAct' = Act("WeightScreen/mount", <<>>, <<>>, <<>>)
    /\ UNCHANGED <<fwVars, scanVars, ble, thunkVars, adapterState, mgrVars,
                   mgrEffectDue, screenEffectDue, isScanning, monitors,
                   effectSub>>

\* The effect on [props.navigation, device]: the cleanup of the run before
\* it, then monitorCharacteristicForDevice for a device with an id.
WeightScreen_useEffect ==
    /\ weightMounted
    /\ weightEffectDue
    /\ weightEffectDue' = FALSE
    /\ LET cleaned == cleanupSubscriptions(monitors, effectSub)
       IN  IF ble.connectedDevice # <<>>
           THEN /\ monitors' = Append(cleaned, ble.connectedDevice[1].id)
                /\ effectSub' = <<ble.connectedDevice[1].id>>
           ELSE /\ monitors' = cleaned
                /\ effectSub' = <<>>
    /\ lastAct' = Act("WeightScreen/effect", <<>>, <<>>, <<>>)
    /\ UNCHANGED <<fwVars, scanVars, ble, thunkVars, adapterState, mgrVars,
                   mgrEffectDue, screenEffectDue, widgetEffectDue,
                   renderedWeight, isScanning, weightMounted, weight>>

\* WeightScreen unmounts: the cleanup of the latest effect runs.
WeightScreen_unmount ==
    /\ weightMounted
    /\ weightMounted' = FALSE
    /\ monitors' = cleanupSubscriptions(monitors, effectSub)
    /\ effectSub' = <<>>
    /\ weightEffectDue' = FALSE
    /\ WidgetCommit(FALSE, ble.connectedDevice, weight)
    /\ lastAct' = Act("WeightScreen/unmount", <<>>, <<>>, <<>>)
    /\ UNCHANGED <<fwVars, scanVars, ble, thunkVars, adapterState, mgrVars,
                   mgrEffectDue, screenEffectDue, isScanning, weight>>

\* props.navigation changes: the effect is due.
NavigationChange ==
    /\ weightMounted
    /\ weightEffectDue' = TRUE
    /\ lastAct' = Act("WeightScreen/navigation", <<>>, <<>>, <<>>)
    /\ UNCHANGED <<fwVars, scanVars, ble, thunkVars, adapterState, mgrVars,
                   mgrEffectDue, screenEffectDue, widgetEffectDue,
                   renderedWeight, isScanning, weightVars>>

\* The library calls the monitor callback: with an error and no
\* characteristic, or with the characteristic of a notification of a
\* linked peripheral.
MonitorCallback ==
    /\ \E i \in 1 .. Len(monitors),
          characteristic \in {<<>>} \cup {<<r>> : r \in Readings} :
            /\ characteristic # <<>> => monitors[i] \in connected
            /\ weight' = IF weightMounted
                         THEN weightMonitorCallbackHandler(weight,
                                                           characteristic)
                         ELSE weight
            /\ WidgetCommit(weightMounted, ble.connectedDevice, weight')
            /\ lastAct' = Act("notification", <<>>, <<>>, characteristic)
    /\ UNCHANGED <<fwVars, scanVars, ble, thunkVars, adapterState, mgrVars,
                   mgrEffectDue, screenEffectDue, weightEffectDue,
                   isScanning, weightMounted, monitors, effectSub>>

\* The application with WeightScreen.
WeightNext ==
    \/ ConnNext
    \/ WeightScreen_mount
    \/ WeightScreen_useEffect
    \/ WeightScreen_unmount
    \/ NavigationChange
    \/ MonitorCallback
    \/ WeightWidget_useEffect

----------------------------------------------------------------------------
\* The store's initial state (part_001:63-69); no scan is running and no
\* thunk is in flight.  BLEManager and BLEScreen are mounted and their mount
\* effects have run; WeightScreen is not mounted yet.
AppInit ==
    /\ scanning = FALSE
    /\ devices = <<>>
    /\ lastScan = [op |-> "init", device |-> <<>>, dispatched |-> FALSE,
                   replaced |-> <<>>]
    /\ ble = [status |-> NetworkState.PENDING, error |-> "",
              connectedDevice |-> <<>>]
    /\ lastAct = [type |-> "init", message |-> <<>>, payload |-> <<>>,
                  value |-> <<>>, prevDevice |-> <<>>]
    /\ sliceDevice = <<>>
    /\ connected = {}
    /\ connectCalls = <<>>
    /\ disconnectCalls = <<>>
    /\ adapterState = "Unknown"
    /\ mgrMounted = TRUE
    /\ mgrDevice = <<>>
    /\ mgrChecks = EmptyBag
    /\ registered = SetToBag({StateSubscription})
    /\ subscriptions = FirstRenderSubscriptions
    /\ events = {}
    /\ mgrEffectDue = FALSE
    /\ screenEffectDue = FALSE
    /\ weightEffectDue = FALSE
    /\ widgetEffectDue = FALSE
    /\ renderedWeight = <<>>
    /\ isScanning = FALSE
    /\ weightMounted = FALSE
    /\ monitors = <<>>
    /\ effectSub = <<>>
    /\ weight = <<>>

Init == FwInit /\ AppInit

Next ==
    \/ setup
    \/ setup_setupAdvertisementData
    \/ setup_println
    \/ Connect
    \/ Disconnect
    \/ Disconnect_start
    \/ DescriptorWrite
    \/ ReadRequest
    \/ ReadResponse
    \/ Tick

Spec == Init /\ [][Next]_vars

\* The application scanning for devices.
ScanSpec == Init /\ [][ScanNext]_vars

\* The firmware on a stack that can deliver a connect event while a client
\* is connected.
MultiNext == Next \/ UnexpectedConnect
MultiSpec == Init /\ [][MultiNext]_vars

\* The firmware with a scheduler that keeps ticking: the Arduino core calls
\* loop() again whenever it returns.
FairSpec == Spec /\ WF_vars(Tick)

\* The lifecycle actions of the thunks in any order.
LifecycleSpec == Init /\ [][LifecycleNext]_vars

\* The lifecycle actions and the setConnectedDevice action in any order.
SliceSpec == Init /\ [][SliceNext]_vars

\* The thunks of the slice.
ConnSpec == Init /\ [][ConnNext]_vars

\* The application with BLEManager, and with every call and every effect
\* that is due running in the end.
MgrSpec == Init /\ [][MgrNext]_vars
MgrFairSpec ==
    /\ MgrSpec
    /\ WF_vars(\E i \in 1 .. MaxInFlight : connectDeviceById_connected(i))
    /\ WF_vars(\E i \in 1 .. MaxInFlight : connectDeviceById_discovered(i))
    /\ WF_vars(\E i \in 1 .. MaxInFlight : connectDeviceById_services(i))
    /\ WF_vars(\E i \in 1 .. MaxInFlight : disconnectDevice_checked(i))
    /\ WF_vars(\E i \in 1 .. MaxInFlight : disconnectDevice_cancelled(i))
    /\ SF_vars(\E id \in DeviceIds : onDisconnected(id))
    /\ WF_vars(checkDevices)
    /\ WF_vars(\E id \in DeviceIds :
                   checkDevices_connected(id) \/ checkDevices_rejected(id))

\* The application with BLEScreen.
ScreenSpec == Init /\ [][ScreenNext]_vars

\* The application with WeightScreen.
WeightSpec == Init /\ [][WeightNext]_vars

----------------------------------------------------------------------------
\* The latest step ended a pass of loop(): last describes the whole pass.
IsTick == last.op = "tick"

\* The flags did not change during the pass: no callback ran on the
\* Bluetooth task while it was under way, but for manual reads.
FlagsSteady == last.during \subseteq {"read"}

\* The latest step read the sensor or attempted a notification.
Sampled == last.reads # <<>> \/ last.notified # <<>>

\* C1 (P1, idle safety): the loop task reads the sensor and calls notify()
\* only while both flags are true, and a pass that starts with the
\* connection flag false or the sampling flag false, the flags steady,
\* reads no sample and attempts no notification.
IdleSafety ==
    /\ (last.op = "pass" /\ last.reads # <<>>) =>
            (client_is_connected /\ load_cell_sampling_enabled)
    /\ (IsTick /\ last.notified # <<>>) =>
            (client_is_connected /\ load_cell_sampling_enabled)
    /\ (IsTick /\ (~last.preConn \/ ~last.preEn) /\ FlagsSteady) => ~Sampled

\* C2 (P2, active sampling): a tick that starts with both flags true, the
\* flags steady, makes exactly one sensor read and exactly one notify
\* attempt, and the value notified is the value read.
ActiveSampling ==
    (IsTick /\ last.preConn /\ last.preEn /\ FlagsSteady) =>
        /\ Len(last.reads) = 1
        /\ Len(last.notified) = 1
        /\ last.notified[1] = last.reads[1]

\* C3 (P3, subscription reset on disconnect): right after a disconnect
\* event the sampling flag is false.
SubscriptionResetOnDisconnect ==
    last.op = "disconnect" => ~load_cell_sampling_enabled

\* C4 (P4, advertising restart): once onDisconnect has returned advertising
\* is active again, and a connect event is accepted only from an
\* advertising state.
AdvertisingRestart ==
    /\ last.op = "disconnect" => advertising
    /\ last.op = "connect" => last.preAdv

\* C5 (no phantom subscriber): a tick reads the sensor or notifies only if
\* a descriptor write with the notify bit set happened since the latest
\* connect.
NoPhantomSubscriber ==
    (IsTick /\ Sampled) => subscribedSinceConnect

\* C6 (P5, manual read forces a sample): a client read makes exactly one
\* sensor read, and the answer the client gets is that value.
ManualReadForcesSample ==
    last.op = "response" =>
        /\ Len(last.reads) = 1
        /\ last.response = last.reads

\* C7 (P6, descriptor decoding): after a descriptor write of v the sampling
\* flag is true exactly when v is odd: true for 1, 3, 257, 65535 and false
\* for 0, 2, 256, 65534.
DescriptorDecoding ==
    last.op = "write" =>
        /\ last.written[1] \in {1, 3, 257, 65535} => load_cell_sampling_enabled
        /\ last.written[1] \in {0, 2, 256, 65534} => ~load_cell_sampling_enabled
        /\ load_cell_sampling_enabled <=>
               (last.written[1] - 2 * (last.written[1] \div 2) = 1)

\* C7 witness: a value other than 0 and 1 with bit 0 clear was written while
\* sampling was enabled.
DescriptorDecodingWitness ==
    last.op = "write" /\ last.written = <<2>> /\ last.preEn

\* C8 (advertising/connection invariant): in every state after boot the
\* stack advertises exactly when no client is connected.
AdvertisingIffIdle ==
    pc = "run" => (advertising <=> ~client_is_connected)

\* C9 (disconnect is atomic for ticks): a tick that follows a disconnect
\* event sees all three effects: connection flag false, advertising
\* restarted, sampling flag reset.
DisconnectAtomicForTicks ==
    (IsTick /\ last.prev = "disconnect") =>
        ~last.preConn /\ last.preAdv /\ ~last.preEn

\* C10 (boot state): after setup and before any stack event no client is
\* connected, sampling is disabled, advertising is active, and a tick reads
\* nothing and notifies nothing.
BootState ==
    (pc = "run" /\ ~eventSeen) =>
        /\ ~client_is_connected
        /\ ~load_cell_sampling_enabled
        /\ advertising
        /\ IsTick => ~Sampled

\* C10 witness: a tick ran after setup, before any stack event.
BootStateWitness ==
    pc = "run" /\ ~eventSeen /\ IsTick /\ last.prev = "setup"

\* C11 (connect transition): a connect event in Idle sets the connection
\* flag and leaves the sampling flag as it was, and a tick that follows a
\* connect with no descriptor write reads nothing and notifies nothing.
ConnectTransition ==
    /\ (last.op = "connect" /\ ~last.preConn) =>
            client_is_connected /\ load_cell_sampling_enabled = last.preEn
    /\ (IsTick /\ last.prev = "connect" /\ "write" \notin last.during) =>
            ~Sampled

\* C12 (value stored before it is notified): a tick that notifies has read
\* one sample and stored it in the characteristic before it called
\* notify(); after the tick the characteristic holds the value the
\* notification carried, which is the sample of the tick unless a manual
\* read stored another inside the pass.
StoredValueIsNotified ==
    (IsTick /\ last.notified # <<>>) =>
        /\ Len(last.reads) = 1
        /\ last.stored = last.reads
        /\ charValue = last.notified[Len(last.notified)]
        /\ "read" \notin last.during => last.notified = last.reads

\* C12 witness: an active tick that no callback ran into replaced the value
\* of the tick before it and notified the sample it had stored.
StoredValueWitness ==
    /\ IsTick /\ last.prev = "tick" /\ last.notified # <<>>
    /\ last.during = {}
    /\ last.prevNotified # <<>>
    /\ last.prevNotified # last.notified
    /\ last.stored = last.notified
    /\ charValue # last.preChar

\* The tick before the latest step attempted a notification that the radio
\* layer did not deliver.
PrevNotifyFailed ==
    last.prev = "tick" /\ last.prevNotified # <<>> /\ last.prevDelivered = <<>>

Active == pc = "run" /\ client_is_connected /\ load_cell_sampling_enabled

\* C14 (the scheduler never halts): after setup a tick is always possible,
\* whatever events, samples and notify failures came before, and while a
\* client stays connected and subscribed a later tick reads the sensor and
\* attempts a notification.
SchedulerNeverHalts ==
    /\ [](pc = "run" => ENABLED Tick)
    /\ (Active ~> ((IsTick /\ Sampled) \/ ~Active))

\* C14 witness: an active tick sampled right after a tick whose
\* notification failed.
SchedulerNeverHaltsWitness ==
    IsTick /\ Sampled /\ PrevNotifyFailed /\ Active

\* C15 (single-owner writes): the connection flag changes only in a connect
\* or disconnect event, the sampling flag only in a descriptor write or a
\* disconnect event; a tick and a manual read change neither.
SingleOwnerWrites ==
    [][/\ client_is_connected' # client_is_connected =>
            last'.op \in {"connect", "disconnecting", "disconnect"}
       /\ load_cell_sampling_enabled' # load_cell_sampling_enabled =>
            last'.op \in {"write", "disconnecting", "disconnect"}]_vars

\* C15 witness: a manual read ran in a second session with both flags true
\* and left them true.
SingleOwnerWritesWitness ==
    /\ last.op = "read" /\ last.preConn /\ last.preEn
    /\ client_is_connected /\ load_cell_sampling_enabled
    /\ ~subscribedSinceConnect

\* The steps of the Bluetooth task and of the loop task.
CallbackOps ==
    {"connect", "disconnecting", "disconnect", "write", "reading", "read",
     "response"}
LoopOps == {"pass", "tick"}

\* C19 as stated (boot ordering): no tick and no stack callback is
\* processed before setup has completed.
NothingBeforeSetupCompletes ==
    last.op \in (CallbackOps \cup LoopOps) => pc = "run"

\* C19 (boot ordering): the statements of setup run once each, in order,
\* and never again once setup has returned; no statement of loop() runs
\* before setup has returned; no stack callback runs before setup has set
\* up the service and has started advertising, which is its last call
\* before the final print.
BootOrdering ==
    /\ [](pc = "boot" => last.op = "init")
    /\ [](last.op \in LoopOps => pc = "run")
    /\ [](last.op \in CallbackOps => pc \in {"println", "run"})
    /\ [][pc' # pc =>
            <<pc, pc'>> \in {<<"boot", "setupAdvertisementData">>,
                             <<"setupAdvertisementData", "println">>,
                             <<"println", "run">>}]_vars
    /\ [][pc = "run" => (pc' = "run" /\ last'.op # "setup")]_vars

\* C19 witness: a central connected after setup had started advertising and
\* before it had returned.
BootOrderingWitness ==
    pc = "println" /\ last.op = "connect" /\ last.prev = "setup"

\* C16 (unexpected connect): a connect event that arrives while the
\* connection flag is set leaves the connection flag, the sampling flag and
\* the advertising state as they were, and the session of the first client
\* continues: while the stack holds a link and no callback is under way the
\* connection flag is set and the stack does not advertise.
UnexpectedConnectIgnored ==
    /\ (last.op = "connect" /\ last.preConn) =>
            /\ client_is_connected
            /\ load_cell_sampling_enabled = last.preEn
            /\ advertising = last.preAdv
    /\ (link /\ btPc = "idle") => (client_is_connected /\ ~advertising)

\* C17 (advertising restart failure): once onDisconnect has returned the
\* peripheral is never idle and not advertising unless a fault has been
\* raised.
RestartFailureEscalated ==
    (pc = "run" /\ btPc = "idle" /\ ~client_is_connected /\ ~advertising) =>
        faultIndicator

\* C18 (notify needs a client): a notify attempt made with no client
\* connected hands a failure back to the firmware and delivers nothing, and
\* a notification is delivered only with a client connected.
NotifyReturnsFailure ==
    /\ (IsTick /\ last.notified # <<>> /\ ~link) =>
            (last.result # <<>> /\ last.delivered = <<>>)
    /\ (IsTick /\ last.delivered # <<>>) => link

\* C20 (scan filter): the scan callback dispatches addScannedDevice only
\* for a device whose name contains BLE_SERVER, so every device in
\* deviceScan.devices has such a name; a device with another name or with
\* no name is not added.
ScanFilter ==
    /\ lastScan.dispatched =>
          /\ lastScan.device # <<>>
          /\ lastScan.device[1].name # <<>>
          /\ Includes(lastScan.device[1].name[1], BLE_SERVER)
    /\ \A i \in 1 .. Len(devices) :
          /\ devices[i].name # <<>>
          /\ Includes(devices[i].name[1], BLE_SERVER)

\* C20 witness: with a device listed, the scan reported a device of
\* another id whose name has the letters of BLE_SERVER apart, and it was
\* not added.
ScanFilterWitness ==
    /\ lastScan.op = "result" /\ ~lastScan.dispatched
    /\ lastScan.device # <<>>
    /\ lastScan.device[1].name = << <<"BLE_", "x", "SERVER">> >>
    /\ Len(devices) = 1
    /\ devices[1].id # lastScan.device[1].id

\* C21 (scanning stops on connection): no scan runs when connectDeviceById
\* calls connectToDevice, the scan is stopped right after the dispatch of
\* connectDeviceById, and with a connected device in the store and the
\* effect of BLEScreen run, isScanning is false and the scan is stopped.
ScanStopsOnConnection ==
    /\ \A i \in 1 .. Len(connectCalls) : ~connectCalls[i].scanning
    /\ lastAct.type = "connectDeviceById/pending" => ~scanning
    /\ (ble.connectedDevice # <<>> /\ ~screenEffectDue) =>
          (~isScanning /\ ~scanning)

\* C21 witness: with a connected device in the store the effect of
\* BLEScreen has dispatched stopDeviceScan, and a connectDeviceById for the
\* other device is in flight.
ScanStopsOnConnectionWitness ==
    /\ ble.connectedDevice # <<>>
    /\ ~screenEffectDue
    /\ lastAct.type = "BLEScreen/effect"
    /\ lastScan.op = "stop"
    /\ ~isScanning
    /\ Len(connectCalls) = 1
    /\ connectCalls[1].id # ble.connectedDevice[1].id

\* C22 (disconnectDevice resets the device): right after a disconnectDevice
\* settles, fulfilled or rejected, connectedDevice is null, and after a
\* fulfilled one the status is CANCELED.
DisconnectResetsDevice ==
    /\ lastAct.type \in {"disconnectDevice/fulfilled",
                         "disconnectDevice/rejected"} =>
          ble.connectedDevice = <<>>
    /\ lastAct.type = "disconnectDevice/fulfilled" =>
          ble.status = NetworkState.CANCELED

\* C22 witness: a disconnectDevice was rejected with 'No device connected'
\* while the store held a device.
DisconnectResetsDeviceWitness ==
    /\ lastAct.type = "disconnectDevice/rejected"
    /\ lastAct.message = <<NoDeviceConnected>>
    /\ lastAct.prevDevice # <<>>

\* C23 (device handle in sync): with the connectedDevice effect of
\* BLEManager run and its connectToDevice settled, the module-level device
\* and an onDisconnected listener are those of the connected device of the
\* store, and there is no module-level device when the store holds none.
HandleInSync ==
    (mgrMounted /\ ~mgrEffectDue /\ mgrChecks = EmptyBag) =>
        IF ble.connectedDevice = <<>>
        THEN mgrDevice = <<>>
        ELSE /\ mgrDevice = <<DeviceOf(ble.connectedDevice[1].id)>>
             /\ BagIn(DisconnectedSubscription(ble.connectedDevice[1].id),
                      registered)

\* C24 (unmount cleanup): after BLEManager has unmounted the library holds
\* none of its subscriptions.
UnmountRemovesAll == ~mgrMounted => registered = EmptyBag

\* C25 (monitoring follows the connected device): at most one monitor
\* subscription is active, none while WeightScreen is not mounted, and with
\* the effect of WeightScreen run the active monitor is the one of the
\* connected device, and there is none when no device is connected.
MonitorFollowsDevice ==
    /\ Len(monitors) <= 1
    /\ ~weightMounted => monitors = <<>>
    /\ (weightMounted /\ ~weightEffectDue) =>
          monitors = IF ble.connectedDevice = <<>>
                     THEN <<>>
                     ELSE <<ble.connectedDevice[1].id>>

\* C25 witness: the effect has registered the monitor of device 2 while
\* device 1 is still linked and a weight has arrived.
MonitorFollowsDeviceWitness ==
    /\ weightMounted
    /\ lastAct.type = "WeightScreen/effect"
    /\ monitors = <<2>>
    /\ 1 \in connected
    /\ weight # <<>>

\* C26 (every notification is rendered): after a notification with a value
\* arrived for a connected device, once the effects that are due have run,
\* WeightScreen shows that value, rounded to grams.
EveryNotificationRendered ==
    (/\ weightMounted
     /\ ble.connectedDevice # <<>>
     /\ weight # <<>>
     /\ ~widgetEffectDue) =>
        renderedWeight = <<Round(weight[1])>>

\* C27 (a peripheral's disconnect reaches the store): when the peripheral
\* that is the connected device of the store drops its link, with the
\* effect of BLEManager run, connectedDevice becomes null in the end.
DropReachesStore ==
    (/\ lastAct.type = "drop"
     /\ ble.connectedDevice # <<>>
     /\ lastAct.value = <<ble.connectedDevice[1].id>>
     /\ mgrMounted /\ ~mgrEffectDue /\ mgrChecks = EmptyBag)
        ~> (ble.connectedDevice = <<>>)

\* C28 (disconnectDevice acts on one device): a disconnectDevice that has
\* called cancelConnection called it on the device whose isConnected() it
\* checked.
DisconnectActsOnOneDevice ==
    \A i \in 1 .. Len(disconnectCalls) :
        disconnectCalls[i].pc = "cancelConnection" =>
            disconnectCalls[i].target = <<disconnectCalls[i].checked>>

\* C29 (connection status lifecycle): pending gives LOADING and an empty
\* error; fulfilled gives SUCCESS and the payload as connectedDevice;
\* rejected gives CANCELED for the message 'CANCELED' and ERROR for any
\* other, the message as error, and the connectedDevice of before.
ConnectionStatusLifecycle ==
    /\ lastAct.type = "connectDeviceById/pending" =>
          /\ ble.status = NetworkState.LOADING
          /\ ble.error = ""
    /\ lastAct.type = "connectDeviceById/fulfilled" =>
          /\ ble.status = NetworkState.SUCCESS
          /\ ble.connectedDevice = lastAct.payload
    /\ lastAct.type = "connectDeviceById/rejected" =>
          /\ ble.status = IF lastAct.message = <<"CANCELED">>
                          THEN NetworkState.CANCELED
                          ELSE NetworkState.ERROR
          /\ ble.error = IF lastAct.message = <<>>
                         THEN ""
                         ELSE lastAct.message[1]
          /\ ble.connectedDevice = lastAct.prevDevice

\* C29 witness: a connectDeviceById was rejected with the message
\* 'CANCELED' while the store held a device.
ConnectionStatusLifecycleWitness ==
    /\ lastAct.type = "connectDeviceById/rejected"
    /\ lastAct.message = <<"CANCELED">>
    /\ ble.status = NetworkState.CANCELED
    /\ ble.connectedDevice # <<>>

\* C30 (SUCCESS has a device): when the status is SUCCESS, connectedDevice
\* is not null.
SuccessHasDevice ==
    ble.status = NetworkState.SUCCESS => ble.connectedDevice # <<>>

\* C30 witness: the status is SUCCESS after a fulfilled connectDeviceById
\* that found no device in the store.
SuccessHasDeviceWitness ==
    /\ ble.status = NetworkState.SUCCESS
    /\ lastAct.type = "connectDeviceById/fulfilled"
    /\ lastAct.prevDevice = <<>>
    /\ ble.error # ""

\* C31 (unique ids in the scanned list): deviceScan.devices holds one entry
\* per device id at most, and after an addScannedDevice the only entry with
\* the id of the added device is that device (its name as added, its rssi
\* as added or as the sort has rewritten it), so an entry that was listed
\* under the id is replaced.
UniqueScannedIds ==
    /\ \A i, j \in 1 .. Len(devices) :
          devices[i].id = devices[j].id => i = j
    /\ (lastScan.op = "result" /\ lastScan.dispatched) =>
          LET added == toBLEDeviceVM(lastScan.device[1])
              entries == Listed(devices, added.id)
          IN  /\ Len(entries) = 1
              /\ entries[1].name = added.name
              /\ entries[1].rssi \in {added.rssi, OrDefault(added.rssi)}

\* C31 witness: with two devices listed, a device was added again under
\* another name and another rssi, and the list of two holds it in place of
\* the entry it had.
UniqueScannedIdsWitness ==
    /\ lastScan.op = "result" /\ lastScan.dispatched
    /\ lastScan.replaced # <<>>
    /\ lastScan.replaced[1].name # lastScan.device[1].name
    /\ lastScan.replaced[1].rssi = <<-40>>
    /\ lastScan.device[1].rssi = <<-60>>
    /\ Len(devices) = 2
    /\ devices[2].id = lastScan.device[1].id
    /\ devices[2].name = lastScan.device[1].name
    /\ devices[2].rssi = <<-60>>

\* C32 (scanned list ordered by signal strength): after every
\* addScannedDevice, deviceScan.devices is sorted by non-increasing rssi, a
\* missing or zero rssi counting as -100, and no entry is stored with a
\* missing or zero rssi (it is stored as -100).
ScannedSortedByRssi ==
    (lastScan.op = "result" /\ lastScan.dispatched) =>
        /\ \A i \in 1 .. Len(devices) - 1 :
              OrDefault(devices[i].rssi)[1] >= OrDefault(devices[i + 1].rssi)[1]
        /\ \A i \in 1 .. Len(devices) :
              devices[i].rssi # <<>> /\ devices[i].rssi # <<0>>

\* C33 (scan start guard): a press of the scan button dispatches
\* scanBleDevices only when the screen is not scanning and the adapter
\* state is PoweredOn; when the screen is scanning it dispatches
\* stopDeviceScan instead, and in any other adapter state it starts no scan
\* (the scan, the list and the record of the latest scan step stay as they
\* are).
ScanStartGuard ==
    [][lastAct'.type = "scanPress" =>
          IF isScanning
          THEN lastScan'.op = "stop" /\ ~scanning' /\ ~isScanning'
          ELSE IF adapterState = "PoweredOn"
               THEN lastScan'.op = "start" /\ scanning' /\ isScanning'
               ELSE UNCHANGED <<scanVars, isScanning>>]_vars

\* C33 witness: the button was pressed with the adapter powered off and
\* the screen not scanning, and no scan step has ever run.
ScanStartGuardWitness ==
    /\ lastAct.type = "scanPress"
    /\ adapterState = "PoweredOff"
    /\ ~isScanning /\ ~scanning
    /\ lastScan.op = "init"

\* C34 (a manual read has no side effect beyond sampling): a client read
\* attempts no notification and delivers none, writes no descriptor, and
\* leaves the connection flag, the sampling flag and advertising as they
\* were; it reads the sensor once and sets the characteristic to that
\* value.
ManualReadFrame ==
    last.op = "read" =>
        /\ last.notified = <<>> /\ last.delivered = <<>>
        /\ last.written = <<>>
        /\ client_is_connected = last.preConn
        /\ load_cell_sampling_enabled = last.preEn
        /\ advertising = last.preAdv
        /\ Len(last.reads) = 1
        /\ charValue = last.reads[1]

\* C34 witness: a subscribed client with both flags true read the
\* characteristic right after its descriptor write; the value changed, the
\* flags are still true and nothing was notified.
ManualReadFrameWitness ==
    /\ last.op = "read" /\ last.prev = "write"
    /\ last.preConn /\ last.preEn /\ subscribedSinceConnect /\ link
    /\ client_is_connected /\ load_cell_sampling_enabled
    /\ charValue # last.preChar
    /\ last.notified = <<>>

====
